---------------------------- MODULE Spec2Model ----------------------------
(***************************************************************************)
(* A model of libaaarg's two signal blocks:                                *)
(*   AliasBlock::process   (src/src/blocks/alias.rs)                       *)
(*   StutterBlock::process (src/src/blocks/stutter.rs)                     *)
(* The free function alias() of src/src/lib.rs runs the same two stages,   *)
(* statement for statement, one after the other.                           *)
(*                                                                         *)
(* One behaviour of the model is one call of process.  The loops of the    *)
(* code are unrolled into one step per iteration, so that a loop that does *)
(* not advance shows as a cycle of the state graph.                        *)
(*                                                                         *)
(* Numbers.  usize and u64 are 64 bits wide.  A value is written as the    *)
(* integer x when it is small, and as the negative integer x - 2^64 when   *)
(* it lies just below 2^64 (the result of a wrapped subtraction); sums and *)
(* differences of representatives are then sums and differences modulo     *)
(* 2^64, and ULt is the unsigned order.  With overflow checks on (a debug  *)
(* build) an overflowing operation panics; with them off (a release build) *)
(* it wraps.                                                               *)
(***************************************************************************)
EXTENDS Integers, Sequences, FiniteSets

\* ------------------------------------------------------------------ bounds
MaxLen == 4
MaxRate == 3
MaxChannels == 2
MaxHalfSecs == 2
MaxFactor == 2
MaxVariation == 2
MaxCount == 2

\* rodio's NANOS_PER_SEC, the unit of take_duration's bookkeeping
NanosPerSec == 1000000000

\* ------------------------------------------------------------- std::time
\* Duration: whole seconds and nanoseconds below one second
Dur(s, n) == [secs |-> s, nanos |-> n]

DurZero == Dur(0, 0)

\* the durations a caller passes in: multiples of half a second
Durations == { Dur(t \div 2, (t % 2) * (NanosPerSec \div 2)) : t \in 0..MaxHalfSecs }

\* Duration * u32
DurMul(d, k) ==
  LET n == d.nanos * k
  IN  Dur(d.secs * k + n \div NanosPerSec, n % NanosPerSec)

DurLe(a, b) == a.secs < b.secs \/ (a.secs = b.secs /\ a.nanos <= b.nanos)

\* Duration - Duration, for b <= a
DurSub(a, b) ==
  IF a.nanos >= b.nanos
  THEN Dur(a.secs - b.secs, a.nanos - b.nanos)
  ELSE Dur(a.secs - b.secs - 1, a.nanos + NanosPerSec - b.nanos)

\* ----------------------------------------------------------------- inputs
\* a source of n samples whose values tell their positions apart
Ramp(n) == [k \in 1..n |-> k]

Max(a, b) == IF a >= b THEN a ELSE b

Values(s) == { s[k] : k \in 1..Len(s) }

\* (d.as_secs_f32() * sample_rate as f32).floor(); exact for the durations
\* and rates of the model, whose products are multiples of one half
DurationToSamples(d, rate) == d.secs * rate + (d.nanos * rate) \div NanosPerSec

\* rodio TakeDuration: a sample costs duration_per_sample, and the iterator
\* ends once the remaining duration is no more than that cost
DurationPerSample(rate, ch) ==
  LET ns == NanosPerSec \div (rate * ch)
  IN  Dur(ns \div NanosPerSec, ns % NanosPerSec)

RECURSIVE TakeCount(_, _, _)
TakeCount(remaining, per, avail) ==
  IF avail = 0 \/ DurLe(remaining, per)
  THEN 0
  ELSE 1 + TakeCount(DurSub(remaining, per), per, avail - 1)

TakeDuration(src, d, rate, ch) ==
  SubSeq(src, 1, TakeCount(d, DurationPerSample(rate, ch), Len(src)))

\* Iterator::nth(n): n items are dropped and the next one is given
RECURSIVE EveryNth(_, _)
EveryNth(s, k) ==
  IF Len(s) < k
  THEN <<>>
  ELSE <<s[k]>> \o EveryNth(SubSeq(s, k + 1, Len(s)), k)

\* step_by without its first_take: every item comes from nth(k - 1)
StepByFirstSkipped(s, k) == EveryNth(s, k)

\* Iterator::step_by(k), k >= 1: next() the first time, nth(k - 1) after it
StepBy(s, k) ==
  IF Len(s) = 0
  THEN <<>>
  ELSE <<s[1]>> \o EveryNth(SubSeq(s, 2, Len(s)), k)

\* the window of the no-jitter path: target_duration * factor as u32 * 4
NoJitterWindow(td, f) == DurMul(DurMul(td, f), 4)

\* (rng.gen_range(-variation..=variation) + factor as isize).max(0) as usize
JitterStepUnclamped(r, f) == r + f

JitterStep(r, f) == Max(r + f, 0)

\* ------------------------------------------------------- 64-bit arithmetic
ULt(a, b) ==
  IF (a >= 0) = (b >= 0) THEN a < b ELSE a >= 0

ULe(a, b) == a = b \/ ULt(a, b)

\* a - b passes below 0
SubOverflows(a, b) == ULt(a, b)

\* ---------------------------------------------------- slice::copy_within
\* the range src_start..src_end of a slice of length n, copied to dest
CopyWithinOk(n, src_start, src_end, dest) ==
  /\ ULe(src_start, src_end)
  /\ ULe(src_end, n)
  /\ ULe(dest, n - (src_end - src_start))

CopyWithinShifted(buf, src_start, src_end, dest) ==
  [k \in 1..Len(buf) |->
     IF dest + 1 < k /\ k <= dest + 1 + (src_end - src_start)
     THEN buf[src_start + (k - dest - 1)]
     ELSE buf[k]]

CopyInserted(buf, src_start, src_end, dest) ==
  SubSeq(buf, 1, dest) \o SubSeq(buf, src_start + 1, src_end)
    \o SubSeq(buf, dest + 1, Len(buf))

\* memmove: every sample read is the one the buffer held before the copy
CopyWithin(buf, src_start, src_end, dest) ==
  [k \in 1..Len(buf) |->
     IF dest < k /\ k <= dest + (src_end - src_start)
     THEN buf[src_start + (k - dest)]
     ELSE buf[k]]

\* ------------------------------------------------------------------ state
VARIABLES
  fn,                   \* the block whose process is running
  pc,                   \* where the call stands
  panic,                \* the panic message, once the call has panicked
  overflow_checks,      \* TRUE: a debug build, integer overflow panics
  input,                \* the source handed to process
  sample_rate,          \* source.sample_rate()
  channels,             \* source.channels()
  factor,               \* AliasBlock::factor
  factor_variation,     \* AliasBlock::factor_variation
  target_duration,      \* AliasBlock::target_duration
  count_range,          \* StutterBlock::stutter_count
  duration_range,       \* StutterBlock::stutter_duration
  piece_range,          \* StutterBlock::stutter_piece_length
  samples,              \* alias: the window taken from the source
  v,                    \* alias: the samples collected so far
  i,                    \* alias: the cursor into samples
  collected,            \* alias: how many samples were collected
  sample_count,         \* alias: the target number of samples
  source,               \* stutter: the buffer being changed
  stutter_count,        \* stutter: the drawn number of stutters
  stutter_i,            \* stutter: the stutters finished (the for index)
  stutter_duration,     \* stutter: the drawn duration, in samples
  stutter_piece_length, \* stutter: the drawn piece length, in samples
  stutter_location,     \* stutter: the drawn start index
  stuttered_samples,    \* stutter: the samples tiled so far
  start,                \* stutter: where this iteration writes
  piece,                \* stutter: this iteration's (inner) stutter_piece_length
  before,               \* stutter: the buffer as the current stutter found it
  out                   \* the samples of the returned SamplesBuffer

call == <<fn, overflow_checks, input, sample_rate, channels>>

aliasParams == <<factor, factor_variation, target_duration>>

stutterParams == <<count_range, duration_range, piece_range>>

aliasLocals == <<samples, v, i, collected, sample_count>>

stutterDraws == <<stutter_duration, stutter_piece_length, stutter_location>>

stutterLocals == <<source, stutter_count, stutter_i, stutterDraws,
                   stuttered_samples, start, piece, before>>

vars == <<call, pc, panic, aliasParams, stutterParams, aliasLocals,
          stutterLocals, out>>

SampleRates == 1..MaxRate

Channels == 1..MaxChannels

Init ==
  /\ fn = "none"
  /\ pc = "idle"
  /\ panic = "none"
  /\ overflow_checks = TRUE
  /\ input = <<>>
  /\ sample_rate = 1
  /\ channels = 1
  /\ factor = 1
  /\ factor_variation = 0
  /\ target_duration = Dur(1, 0)
  /\ count_range = [lo |-> 0, hi |-> 0]
  /\ duration_range = [lo |-> DurZero, hi |-> DurZero]
  /\ piece_range = [lo |-> DurZero, hi |-> DurZero]
  /\ samples = <<>>
  /\ v = <<>>
  /\ i = 0
  /\ collected = 0
  /\ sample_count = 0
  /\ source = <<>>
  /\ stutter_count = 0
  /\ stutter_i = 0
  /\ stutter_duration = 0
  /\ stutter_piece_length = 0
  /\ stutter_location = 0
  /\ stuttered_samples = 0
  /\ start = 0
  /\ piece = 0
  /\ before = <<>>
  /\ out = <<>>

\* the caller's choice of source
Enter(name) ==
  /\ pc = "idle"
  /\ fn' = name
  /\ \E n \in 0..MaxLen : input' = Ramp(n)
  /\ sample_rate' \in SampleRates

Panic(msg) ==
  /\ pc' = "panicked"
  /\ panic' = msg

Return(buf) ==
  /\ pc' = "done"
  /\ out' = buf

\* ------------------------------------------------------ AliasBlock::process
AliasParamsChosen ==
  /\ channels' \in Channels
  /\ UNCHANGED overflow_checks
  /\ factor' \in 0..MaxFactor
  /\ factor_variation' \in 0..MaxVariation
  /\ target_duration' \in Durations

\* factor_variation == 0, factor >= 1: take_duration, step_by, collect
AliasNoJitter ==
  /\ Enter("AliasBlock")
  /\ AliasParamsChosen
  /\ factor_variation' = 0
  /\ factor' >= 1
  /\ samples' = TakeDuration(input', NoJitterWindow(target_duration', factor'),
                             sample_rate', channels')
  /\ Return(StepBy(samples', factor'))
  /\ UNCHANGED <<panic, stutterParams, v, i, collected, sample_count,
                 stutterLocals>>

\* factor_variation == 0, factor == 0: step_by asserts step != 0
AliasStepByZero ==
  /\ Enter("AliasBlock")
  /\ AliasParamsChosen
  /\ factor_variation' = 0
  /\ factor' = 0
  /\ Panic("assertion failed: step != 0")
  /\ UNCHANGED <<stutterParams, aliasLocals, stutterLocals, out>>

\* factor_variation > 0: the window is collected and the walk begins
AliasJitterBegin ==
  /\ Enter("AliasBlock")
  /\ AliasParamsChosen
  /\ factor_variation' > 0
  /\ sample_count' = DurationToSamples(target_duration', sample_rate')
  /\ samples' = TakeDuration(input', DurMul(target_duration', factor'),
                             sample_rate', channels')
  /\ v' = <<>>
  /\ i' = 0
  /\ collected' = 0
  /\ pc' = "alias_loop"
  /\ UNCHANGED <<panic, stutterParams, stutterLocals, out>>

\* one iteration of: while collected < sample_count, with samples.get(i) = Some
AliasCollect ==
  /\ pc = "alias_loop"
  /\ collected < sample_count
  /\ i < Len(samples)
  /\ v' = Append(v, samples[i + 1])
  /\ collected' = collected + 1
  /\ \E r \in (0 - factor_variation)..factor_variation :
       i' = i + JitterStep(r, factor)
  /\ UNCHANGED <<call, pc, panic, aliasParams, stutterParams, samples,
                 sample_count, stutterLocals, out>>

\* samples.get(i) = None: break
AliasBreak ==
  /\ pc = "alias_loop"
  /\ collected < sample_count
  /\ i >= Len(samples)
  /\ Return(v)
  /\ UNCHANGED <<call, panic, aliasParams, stutterParams, aliasLocals,
                 stutterLocals>>

\* collected == sample_count: the loop ends
AliasFull ==
  /\ pc = "alias_loop"
  /\ collected >= sample_count
  /\ Return(v)
  /\ UNCHANGED <<call, panic, aliasParams, stutterParams, aliasLocals,
                 stutterLocals>>

\* ---------------------------------------------------- StutterBlock::process
Range(lo, hi) == [lo |-> lo, hi |-> hi]

StutterParamsChosen ==
  /\ overflow_checks' \in BOOLEAN
  /\ UNCHANGED channels
  /\ \E lo \in 0..MaxCount, hi \in 0..MaxCount : count_range' = Range(lo, hi)
  /\ \E lo \in Durations, hi \in Durations : duration_range' = Range(lo, hi)
  /\ \E lo \in Durations, hi \in Durations : piece_range' = Range(lo, hi)

\* rng.gen_range(lo..=hi) over durations
DrawDuration(r) == { d \in Durations : DurLe(r.lo, d) /\ DurLe(d, r.hi) }

\* *self.stutter_count.end() > 0
StutterRequestedAlways(r) == r.hi >= 0

StutterRequested(r) == r.hi > 0

\* no stutter requested: the collected source is returned as it is
StutterNone ==
  /\ Enter("StutterBlock")
  /\ StutterParamsChosen
  /\ ~StutterRequested(count_range')
  /\ source' = input'
  /\ Return(source')
  /\ UNCHANGED <<panic, aliasParams, aliasLocals, stutter_count, stutter_i,
                 stutterDraws, stuttered_samples, start, piece, before>>

\* rng.gen_range(self.stutter_count) on an empty range
StutterCountPanic ==
  /\ Enter("StutterBlock")
  /\ StutterParamsChosen
  /\ StutterRequested(count_range')
  /\ count_range'.lo > count_range'.hi
  /\ source' = input'
  /\ Panic("cannot sample empty range: stutter_count")
  /\ UNCHANGED <<aliasParams, aliasLocals, stutter_count, stutter_i,
                 stutterDraws, stuttered_samples, start, piece, before, out>>

\* the number of stutters is drawn
StutterCountDrawn ==
  /\ Enter("StutterBlock")
  /\ StutterParamsChosen
  /\ StutterRequested(count_range')
  /\ stutter_count' \in count_range'.lo..count_range'.hi
  /\ stutter_i' = 0
  /\ source' = input'
  /\ pc' = "for"
  /\ UNCHANGED <<panic, aliasParams, aliasLocals, stutterDraws,
                 stuttered_samples, start, piece, before, out>>

\* for _i in 0..stutter_count is over
StutterReturn ==
  /\ pc = "for"
  /\ stutter_i >= stutter_count
  /\ Return(source)
  /\ UNCHANGED <<call, panic, aliasParams, stutterParams, aliasLocals,
                 stutterLocals>>

\* gen_range on an empty stutter_duration or stutter_piece_length range
StutterRangePanic ==
  /\ pc = "for"
  /\ stutter_i < stutter_count
  /\ \/ /\ DrawDuration(duration_range) = {}
        /\ Panic("cannot sample empty range: stutter_duration")
     \/ /\ DrawDuration(duration_range) # {}
        /\ DrawDuration(piece_range) = {}
        /\ Panic("cannot sample empty range: stutter_piece_length")
  /\ UNCHANGED <<call, aliasParams, stutterParams, aliasLocals,
                 stutterLocals, out>>

\* the values rng.gen_range(0..high) can give; a wrapped high lies just
\* below 2^64, and the draws kept are the small ones and the largest
LocationDraws(high, n) ==
  IF high >= 0 THEN 0..(high - 1) ELSE (0..n) \cup {high - 1}

DrawsMade(d, p) ==
  /\ stutter_duration' = DurationToSamples(d, sample_rate)
  /\ stutter_piece_length' = DurationToSamples(p, sample_rate)

\* source.len() as u64 - stutter_duration overflows, or the range is empty
StutterLocationPanic ==
  /\ pc = "for"
  /\ stutter_i < stutter_count
  /\ \E d \in DrawDuration(duration_range), p \in DrawDuration(piece_range) :
       /\ DrawsMade(d, p)
       /\ IF SubOverflows(Len(source), stutter_duration')
          THEN /\ overflow_checks
               /\ Panic("attempt to subtract with overflow: len - stutter_duration")
          ELSE /\ Len(source) - stutter_duration' = 0
               /\ Panic("cannot sample empty range: stutter_location")
  /\ UNCHANGED <<call, aliasParams, stutterParams, aliasLocals, source,
                 stutter_count, stutter_i, stutter_location,
                 stuttered_samples, start, piece, before, out>>

\* duration, piece length and location are drawn; the tiling begins
StutterBegin ==
  /\ pc = "for"
  /\ stutter_i < stutter_count
  /\ \E d \in DrawDuration(duration_range), p \in DrawDuration(piece_range) :
       /\ DrawsMade(d, p)
       /\ SubOverflows(Len(source), stutter_duration') => ~overflow_checks
       /\ stutter_location' \in
            LocationDraws(Len(source) - stutter_duration', Len(source))
  /\ stuttered_samples' = 0
  /\ before' = source
  /\ pc' = "tile_check"
  /\ UNCHANGED <<call, panic, aliasParams, stutterParams, aliasLocals, source,
                 stutter_count, stutter_i, start, piece, out>>

\* while stuttered_samples < stutter_duration is over
TileDone ==
  /\ pc = "tile_check"
  /\ ~ULt(stuttered_samples, stutter_duration)
  /\ stutter_i' = stutter_i + 1
  /\ pc' = "for"
  /\ UNCHANGED <<call, panic, aliasParams, stutterParams, aliasLocals, source,
                 stutter_count, stutterDraws, stuttered_samples, start, piece,
                 before, out>>

\* let start = ...; the condition of the if
TileStart == stutter_location + stuttered_samples

PastEnd(s) == ULt(Len(source), s + stutter_piece_length)

\* the inner stutter_piece_length
Truncated(s) ==
  IF PastEnd(s) THEN s - Len(source) ELSE stutter_piece_length

\* start - source.len() overflows, in a debug build (which holds no
\* wrapped value, so that its sums of small values do not overflow)
TileOverflowPanic ==
  /\ pc = "tile_check"
  /\ ULt(stuttered_samples, stutter_duration)
  /\ overflow_checks
  /\ PastEnd(TileStart)
  /\ SubOverflows(TileStart, Len(source))
  /\ Panic("attempt to subtract with overflow: start - len")
  /\ UNCHANGED <<call, aliasParams, stutterParams, aliasLocals,
                 stutterLocals, out>>

\* start and the inner stutter_piece_length of this iteration
TilePiece ==
  /\ pc = "tile_check"
  /\ ULt(stuttered_samples, stutter_duration)
  /\ overflow_checks =>
       ~(PastEnd(TileStart) /\ SubOverflows(TileStart, Len(source)))
  /\ start' = TileStart
  /\ piece' = Truncated(TileStart)
  /\ pc' = "tile_copy"
  /\ UNCHANGED <<call, panic, aliasParams, stutterParams, aliasLocals, source,
                 stutter_count, stutter_i, stutterDraws, stuttered_samples,
                 before, out>>

\* copy_within refuses the range
TileCopyPanic ==
  /\ pc = "tile_copy"
  /\ ~CopyWithinOk(Len(source), stutter_location, stutter_location + piece, start)
  /\ Panic("copy_within: range out of bounds")
  /\ UNCHANGED <<call, aliasParams, stutterParams, aliasLocals,
                 stutterLocals, out>>

\* source.copy_within(...); stuttered_samples += stutter_piece_length
TileCopy ==
  /\ pc = "tile_copy"
  /\ CopyWithinOk(Len(source), stutter_location, stutter_location + piece, start)
  /\ source' = CopyWithin(source, stutter_location, stutter_location + piece, start)
  /\ stuttered_samples' = stuttered_samples + piece
  /\ pc' = "tile_check"
  /\ UNCHANGED <<call, panic, aliasParams, stutterParams, aliasLocals,
                 stutter_count, stutter_i, stutterDraws, start, piece, before,
                 out>>

\* ---------------------------------------------------------- specification
Next ==
  \/ AliasNoJitter
  \/ AliasStepByZero
  \/ AliasJitterBegin
  \/ AliasCollect
  \/ AliasBreak
  \/ AliasFull
  \/ StutterNone
  \/ StutterCountPanic
  \/ StutterCountDrawn
  \/ StutterReturn
  \/ StutterRangePanic
  \/ StutterLocationPanic
  \/ StutterBegin
  \/ TileDone
  \/ TileOverflowPanic
  \/ TilePiece
  \/ TileCopyPanic
  \/ TileCopy

Spec == Init /\ [][Next]_vars

\* ------------------------------------------------------------- properties
\* process returns a SamplesBuffer, never a Result: no step of the code
\* leaves the call in a reported error
ErrorReturned == pc = "error"

\* the drawn location lies in [0, len - stutter_duration), as line 52 intends
InRangeDraw ==
  /\ stutter_duration <= Len(source)
  /\ 0 <= stutter_location
  /\ stutter_location < Len(source) - stutter_duration

\* the stutter whose draws are in the state has begun
StutterBegun ==
  /\ fn = "StutterBlock"
  /\ \/ pc \in {"tile_check", "tile_copy"}
     \/ /\ pc = "panicked"
        /\ panic \in {"attempt to subtract with overflow: len - stutter_duration",
                      "cannot sample empty range: stutter_location",
                      "attempt to subtract with overflow: start - len",
                      "copy_within: range out of bounds"}

\* the stutter whose draws are in the state has run to its end
StutterCompleted ==
  /\ fn = "StutterBlock"
  /\ pc = "for"
  /\ stutter_i > 0

\* ceil(stutter_duration / stutter_piece_length) pieces
TiledLength ==
  ((stutter_duration + stutter_piece_length - 1) \div stutter_piece_length)
    * stutter_piece_length

\* C1: in the tiling loop of a stutter whose location was drawn in range, no
\* index computation underflows and every copy has its source and its
\* destination range end at or before len(source).
C1_CopiesStayInBounds ==
  (StutterBegun /\ InRangeDraw) =>
    /\ pc # "panicked"
    /\ pc = "tile_copy" =>
         /\ piece >= 0
         /\ start + piece <= Len(source)
         /\ stutter_location + piece <= Len(source)

\* C2: a stutter begun on a buffer that is empty, or shorter than the drawn
\* stutter_duration, ends in a reported error: no underflow, no panic, no
\* buffer.
C2_ShortSourceFails ==
  (StutterBegun /\ (Len(source) = 0 \/ Len(source) < stutter_duration)) =>
    ErrorReturned

\* the readings of "target_duration-worth" of a source: the code's own
\* conversion of a duration to samples, the same per channel, and what
\* take_duration gives for target_duration
TargetWorth ==
  { DurationToSamples(target_duration, sample_rate),
    DurationToSamples(target_duration, sample_rate) * channels,
    Len(TakeDuration(input, target_duration, sample_rate, channels)) }

\* C3: with factor 1 and no variation, on an input longer than
\* target_duration, the output is the first target_duration-worth of the
\* input.
C3_DefaultIsPrefix ==
  ( /\ fn = "AliasBlock"
    /\ pc = "done"
    /\ factor = 1
    /\ factor_variation = 0
    /\ \A n \in TargetWorth : Len(input) > n ) =>
    \E n \in TargetWorth : out = SubSeq(input, 1, n)

\* C4: on the no-jitter path with factor k >= 1 and W samples in the window,
\* the output has ceil(W / k) samples and output sample j is input sample
\* j * k.
C4_Decimation ==
  (fn = "AliasBlock" /\ pc = "done" /\ factor_variation = 0) =>
    LET W == Len(samples)
        k == factor
    IN  /\ k >= 1
        /\ samples = SubSeq(input, 1, W)
        /\ Len(out) = (W + k - 1) \div k
        /\ \A j \in 0..(Len(out) - 1) : out[j + 1] = input[j * k + 1]

JitterSteps ==
  Max(0, factor - factor_variation)..(factor + factor_variation)

JitterState ==
  (fn = "AliasBlock" /\ factor_variation > 0) =>
    /\ Len(v) = collected
    /\ Len(v) <= DurationToSamples(target_duration, sample_rate)
    /\ collected = 0 => i = 0
    /\ pc = "done" =>
         /\ out = v
         /\ Len(out) < DurationToSamples(target_duration, sample_rate)
              => i >= Len(samples)

JitterMove ==
  (pc = "alias_loop") =>
    IF Len(v') = Len(v) + 1
    THEN (i' - i) \in JitterSteps
    ELSE i' = i /\ v' = v

\* C5: on the jittered path the cursor starts at 0, every append is followed
\* by an advance within [max(0, k - v), k + v], no more than
\* floor(target_duration * sample_rate) samples are appended, and an output
\* shorter than that means the cursor is past the end of the window.
C5_JitterBounds == []JitterState /\ [][JitterMove]_vars

\* C6: with the upper bound of stutter_count at 0 the call returns the input
\* as it is; it never reaches the draws or the copies.
C6_NoStutterIdentity ==
  (fn = "StutterBlock" /\ count_range.hi = 0) =>
    /\ pc = "done"
    /\ out = input
    /\ source = input
    /\ before = <<>>
    /\ stutter_location = 0

\* C7: factor 0 with no variation ends in a reported error.
C7_ZeroFactorFails ==
  (fn = "AliasBlock" /\ factor = 0 /\ factor_variation = 0) => ErrorReturned

\* C8: every iteration of the jittered loop raises collected, which
\* sample_count bounds, and every iteration of the tiling loop of a stutter
\* drawn in range raises stuttered_samples: both loops end.
C8_LoopsAdvance ==
  [][ /\ (pc = "alias_loop" /\ pc' = "alias_loop") =>
           (collected' > collected /\ collected' <= sample_count)
      /\ (pc = "tile_copy" /\ pc' = "tile_check" /\ InRangeDraw) =>
           stuttered_samples' > stuttered_samples ]_vars

\* C9: a completed stutter at L with duration d and piece length p >= 1 has
\* left buffer[L + t] = old buffer[L + (t mod p)] for every t < d, and while
\* a stutter drawn in range runs, its piece [L, L + p) keeps its samples.
C9_RepeatingTile ==
  /\ (StutterCompleted /\ stutter_piece_length >= 1) =>
       \A t \in 0..(stutter_duration - 1) :
         source[stutter_location + t + 1]
           = before[stutter_location + (t % stutter_piece_length) + 1]
  /\ ( /\ StutterCompleted \/ (StutterBegun /\ pc # "panicked")
       /\ InRangeDraw
       /\ stutter_location + stutter_piece_length <= Len(source) ) =>
       \A t \in 0..(stutter_piece_length - 1) :
         source[stutter_location + t + 1] = before[stutter_location + t + 1]

\* C10: a completed stutter with piece length p >= 1 has kept the length of
\* the buffer and every sample outside [L, L + ceil(d / p) * p); the buffer
\* returned is as long as the input and holds only values of the input.
C10_StutterFrame ==
  /\ (StutterCompleted /\ stutter_piece_length >= 1) =>
       /\ Len(source) = Len(before)
       /\ \A k \in 1..Len(source) :
            (k <= stutter_location \/ k > stutter_location + TiledLength)
              => source[k] = before[k]
  /\ (fn = "StutterBlock" /\ pc = "done") =>
       /\ Len(out) = Len(input)
       /\ Values(out) \subseteq Values(input)

\* -------------------------------------------------------------- witnesses
\* C4: a window cut short of the input, of odd length, decimated by 2
C4_Witness ==
  /\ fn = "AliasBlock"
  /\ pc = "done"
  /\ factor_variation = 0
  /\ factor = 2
  /\ Len(samples) = 3
  /\ Len(input) > Len(samples)
  /\ out = <<1, 3>>

\* C5: a walk with a repeated sample (a step of 0, clamped from below) that
\* left the window before the target count was reached
C5_Witness ==
  /\ fn = "AliasBlock"
  /\ pc = "done"
  /\ factor_variation > factor
  /\ Len(out) >= 2
  /\ out[1] = out[2]
  /\ Len(out) < DurationToSamples(target_duration, sample_rate)
  /\ i >= Len(samples)

\* C6: a non-empty input and ranges that would panic or loop if drawn from
C6_Witness ==
  /\ fn = "StutterBlock"
  /\ pc = "done"
  /\ count_range = Range(1, 0)
  /\ duration_range.lo # DurZero
  /\ piece_range.hi = DurZero
  /\ Len(input) = MaxLen
  /\ out = input

\* C9: two whole pieces and the start of a third, stamped inside the buffer
C9_Witness ==
  /\ StutterCompleted
  /\ stutter_piece_length = 1
  /\ stutter_duration = 3
  /\ stutter_location = 0
  /\ before = Ramp(4)
  /\ source = <<1, 1, 1, 4>>

\* C10: two stutters done, the second of which changed the buffer, returned
C10_Witness ==
  /\ fn = "StutterBlock"
  /\ pc = "done"
  /\ stutter_count = 2
  /\ stutter_piece_length >= 1
  /\ stutter_location >= 1
  /\ out # before
  /\ before # input
  /\ Len(out) = 4

=============================================================================
